---- MODULE Spec2Model ----
(***************************************************************************)
(* In-place selection of package kth: PDQSelect, FloydRivest and the       *)
(* heap-select fallback, as state machines over one mutable sequence.      *)
(* Go indices are 0-based; the sequence `data` is a TLA+ sequence, so the  *)
(* item at Go index i is data[i + 1].                                      *)
(***************************************************************************)
EXTENDS Integers, Sequences, FiniteSets, TLC

\* ------------------------------------------------------------------ bounds
\* Items are drawn from 0..MaxVal; every sequence of length 0..MaxLen is an input.
MaxVal == 2
MaxLen == 4

\* ------------------------------------------------------- program constants
maxInsertion == 12
rangeNarrowingThreshold == 600

\* Patterned inputs long enough to enter the pdqselect loop have lengths
\* maxInsertion+1 .. MidLen, one per pattern 1..NumPatterns.
MidLen == 14
NumPatterns == 10
\* The inputs built to split imbalanced have length BigLen + BigExtra.
BigExtra == 0
\* The inputs long enough for range narrowing have length
\* rangeNarrowingThreshold + 2 + NarrowExtra.
NarrowExtra == 0

\* ---------------------------------------------------------------- state
VARIABLES
    data,       \* the caller's sequence, mutated in place
    input,      \* the sequence as it was passed in (never written)
    prev,       \* the results of the caller's earlier calls on this sequence, oldest first
    entry,      \* the function the caller invoked
    shape,      \* "Interface" | "Ordered" | "Func": the surface shape
    kArg,       \* the k the caller passed (1-based for the public entry points)
    pc,         \* position in the running function
    a, b, k,    \* pdqselect: working range [a, b) and absolute target
    limit, wasBalanced, wasPartitioned, pivot, hint,
    i, j, m,    \* loop indices; m is mn / mx of the fast paths
    ha, hb, hk, \* heapSelect's parameters a, b, k
    left, right, swap, stack,   \* floydRivest: closed range, orientation flag, callers' frames
    acc,        \* the Less / Swap calls of the last step, as <<op, x, y>>
    nless, nswap, ncall  \* counts of Less, Swap and helper calls so far

vars == <<data, input, prev, entry, shape, kArg, pc, a, b, k, limit, wasBalanced,
          wasPartitioned, pivot, hint, i, j, m, ha, hb, hk, left, right, swap,
          stack, acc, nless, nswap, ncall>>

pdqVars == <<a, b, k, limit, wasBalanced, wasPartitioned, pivot, hint>>
heapVars == <<ha, hb, hk>>
frVars == <<left, right, swap, stack>>

\* ------------------------------------------------------- data primitives
N(d) == Len(d)
At(d, x) == d[x + 1]
InBounds(d, x) == 0 <= x /\ x < Len(d)
Less(d, x, y) == d[x + 1] < d[y + 1]
Swap_Overwrite(d, x, y) == [d EXCEPT ![x + 1] = d[y + 1]]
Swap(d, x, y) == [d EXCEPT ![x + 1] = d[y + 1], ![y + 1] = d[x + 1]]

\* ------------------------------------------------------------- inputs
Values == 0..MaxVal
SmallInputs == UNION {[1..n -> Values] : n \in 0..MaxLen}
Shapes == {"Interface", "Ordered", "Func"}

\* Orderings of the test harness (ascending, descending, constant, mostly sorted,
\* push-front, push-middle) and a few fixed scrambles, as sequences of length n.
Pattern(p, n) ==
    [x \in 1..n |->
        LET idx == x - 1
            half == n \div 2
        IN CASE p = 1 -> idx
             [] p = 2 -> n - 1 - idx
             [] p = 3 -> 1
             [] p = 4 -> idx % 3
             [] p = 5 -> IF idx = n - 1 THEN 0 ELSE idx + 1
             [] p = 6 -> IF idx = n - 1 THEN half ELSE IF idx < half THEN idx ELSE idx + 1
             [] p = 7 -> IF idx = 2 THEN 9 ELSE IF idx = 9 THEN 2 ELSE idx
             [] p = 8 -> IF idx < n - 1 - idx THEN idx ELSE n - 1 - idx
             [] OTHER -> ((idx + 1) * (idx + p) * p + 3 * idx * idx) % 7]

MidInputs == {Pattern(p, n) : p \in 1..NumPatterns, n \in (maxInsertion + 1)..MidLen}

\* The shortest length at which a side shorter than length/8 is still longer than
\* maxInsertion on either side of the pivot.
BigLen == 8 * (maxInsertion + 3) + BigExtra

\* data[0] = 1, data[n/2] = 0, data[n-1] = 2 (median-of-three picks the 1, with one
\* reversed comparison); of the other positions the first nz-1 hold 0, the next
\* no-1 hold 1 and the rest hold values above 1: nz zeros and no ones in all.
Skewed(n, nz, no) ==
    [x \in 1..n |->
        LET idx == x - 1
            half == n \div 2
            free == IF idx < half THEN idx - 1 ELSE idx - 2
        IN IF idx = 0 THEN 1
           ELSE IF idx = half THEN 0
           ELSE IF idx = n - 1 THEN 2
           ELSE IF free < nz - 1 THEN 0
           ELSE IF free < nz - 1 + no - 1 THEN 1
           ELSE 2 + ((n - 1 - idx) % 3)]

BigInputs ==
    {Skewed(BigLen, maxInsertion + 1, 1),
     Skewed(BigLen, BigLen - (maxInsertion + 2), maxInsertion - 1)}

\* ------------------------------------------------------------ siftDown
\* Standard 0-indexed binary-heap sift-down on the heap data[first+lo .. first+hi),
\* child and parent indices biased by `first`. ok is FALSE when an index fell
\* outside the sequence (Go panics there).
RECURSIVE siftLoop(_, _, _, _)
siftLoop(d, root, hi, first) ==
    LET child == 2 * root + 1 IN
    IF child >= hi THEN [d |-> d, ok |-> TRUE]
    ELSE IF ~InBounds(d, first + root) \/ ~InBounds(d, first + child)
            \/ (child + 1 < hi /\ ~InBounds(d, first + child + 1))
    THEN [d |-> d, ok |-> FALSE]
    ELSE LET c == IF child + 1 < hi /\ Less(d, first + child, first + child + 1)
                  THEN child + 1 ELSE child
         IN IF ~Less(d, first + root, first + c)
            THEN [d |-> d, ok |-> TRUE]
            ELSE siftLoop(Swap(d, first + root, first + c), c, hi, first)

siftDown(d, lo, hi, first) == siftLoop(d, lo, hi, first)

\* ------------------------------------------------- small-range sorters
\* insertionSort(data, a, b): insertion sort of [a, b).
RECURSIVE insertInner(_, _, _)
insertInner(d, jj, aa) ==
    IF jj > aa /\ Less(d, jj, jj - 1)
    THEN insertInner(Swap(d, jj, jj - 1), jj - 1, aa)
    ELSE d

RECURSIVE insertOuter(_, _, _, _)
insertOuter(d, ii, aa, bb) ==
    IF ii < bb THEN insertOuter(insertInner(d, ii, aa), ii + 1, aa, bb) ELSE d

insertionSort(d, aa, bb) == insertOuter(d, aa + 1, aa, bb)

\* partialInsertionSort(data, a, b): insertion sort of [a, b) that gives up after
\* maxSteps displaced items; done is TRUE when the range ended sorted.
maxSteps == 5

\* the first x in from..bb-1 with data[x] < data[x-1], or bb
firstDescent(d, from, bb) ==
    LET S == {x \in from..(bb - 1) : Less(d, x, x - 1)} IN
    IF S = {} THEN bb ELSE CHOOSE x \in S : \A y \in S : x <= y

RECURSIVE shiftLeft(_, _, _)
shiftLeft(d, jj, aa) ==
    IF jj >= aa + 1 /\ Less(d, jj, jj - 1)
    THEN shiftLeft(Swap(d, jj, jj - 1), jj - 1, aa)
    ELSE d

RECURSIVE shiftRight(_, _, _)
shiftRight(d, jj, bb) ==
    IF jj < bb /\ Less(d, jj, jj - 1)
    THEN shiftRight(Swap(d, jj, jj - 1), jj + 1, bb)
    ELSE d

RECURSIVE partialLoop(_, _, _, _, _)
partialLoop(d, ii, step, aa, bb) ==
    IF step >= maxSteps THEN [d |-> d, done |-> FALSE]
    ELSE LET x == firstDescent(d, ii, bb) IN
         IF x = bb THEN [d |-> d, done |-> TRUE]
         ELSE LET d1 == Swap(d, x, x - 1)
                  d2 == shiftLeft(d1, x - 1, aa)
                  d3 == shiftRight(d2, x + 1, bb)
              IN partialLoop(d3, x, step + 1, aa, bb)

partialInsertionSort(d, aa, bb) == partialLoop(d, aa + 1, 0, aa, bb)

\* ------------------------------------------------------ pattern breaker
\* Swaps (a, a+len/4), (mid, mid+len/4), (b-1, b-1-len/4) with mid = a + len/2.
breakPatterns(d, aa, bb) ==
    LET len == bb - aa
        q == len \div 4
        mid == aa + len \div 2
        d1 == Swap(d, aa, aa + q)
        d2 == Swap(d1, mid, mid + q)
    IN Swap(d2, bb - 1, bb - 1 - q)

\* reverseRange(data, a, b)
reverseRange(d, aa, bb) ==
    [x \in 1..Len(d) |->
        IF aa <= x - 1 /\ x - 1 < bb THEN d[(aa + bb - 1 - (x - 1)) + 1] ELSE d[x]]

\* ---------------------------------------------------------- pivot chooser
\* Median of the samples {a, a + len/2, b-1} by three compare-and-swaps on the
\* indices (strict <, equal items count as in order). The hint is "increasing"
\* when no comparison was reversed, "decreasing" when all were, else "unknown".
\* Ranges in this model stay below the length where the ninther refinement
\* starts, so only the median-of-three regime is modelled.
order2(d, x, y) ==
    IF Less(d, y, x) THEN [lo |-> y, hi |-> x, sw |-> 1] ELSE [lo |-> x, hi |-> y, sw |-> 0]

choosePivot(d, aa, bb) ==
    LET len == bb - aa
        s0 == aa
        s1 == aa + len \div 2
        s2 == bb - 1
        o1 == order2(d, s0, s1)
        o2 == order2(d, o1.hi, s2)
        o3 == order2(d, o1.lo, o2.lo)
        swaps == o1.sw + o2.sw + o3.sw
    IN [pivot |-> o3.hi,
        hint |-> IF swaps = 0 THEN "increasing"
                 ELSE IF swaps = 3 THEN "decreasing" ELSE "unknown"]

\* From this length on the chooser replaces each sample by the median of itself
\* and its neighbours; which of the probed indices it returns, and with which hint,
\* is left open: any probed index of the range with any hint.
nintherLen == 128

pivotChoices(d, aa, bb) ==
    IF bb - aa < nintherLen
    THEN {choosePivot(d, aa, bb)}
    ELSE LET mid == aa + (bb - aa) \div 2 IN
         [pivot : {aa, aa + 1, mid - 1, mid, mid + 1, bb - 2, bb - 1},
          hint : {"increasing", "decreasing", "unknown"}]

\* ------------------------------------------------------------- partition
\* first x >= from with x > jj or not data[x] < data[aa]
scanUpLess(d, aa, from, jj) ==
    LET S == {x \in from..jj : ~Less(d, x, aa)} IN
    IF S = {} THEN (IF from > jj + 1 THEN from ELSE jj + 1)
    ELSE CHOOSE x \in S : \A y \in S : x <= y

\* last y <= from with y < ii or not data[aa] < data[y]
scanDownGreater(d, aa, ii, from) ==
    LET S == {y \in ii..from : ~Less(d, aa, y)} IN
    IF S = {} THEN (IF from < ii - 1 THEN from ELSE ii - 1)
    ELSE CHOOSE y \in S : \A z \in S : z <= y

RECURSIVE partitionLoop(_, _, _, _)
partitionLoop(d, aa, ii, jj) ==
    IF ii < jj
    THEN LET d1 == Swap(d, ii, jj)
             i1 == scanUpLess(d1, aa, ii + 1, jj - 1)
             j1 == scanDownGreater(d1, aa, i1, jj - 1)
         IN partitionLoop(d1, aa, i1, j1)
    ELSE [d |-> Swap(d, aa, ii - 1), mid |-> ii - 1]

\* partition(data, a, b, pivot): pivot to a; i scans up over items < pivot, j scans
\* down over items > pivot; out-of-place pairs are swapped; the pivot ends at i-1.
partition(d, aa, bb, pp) ==
    LET d0 == Swap(d, aa, pp)
        i0 == scanUpLess(d0, aa, aa + 1, bb - 1)
        j0 == scanDownGreater(d0, aa, i0, bb - 1)
        r == partitionLoop(d0, aa, i0, j0)
    IN [d |-> r.d, mid |-> r.mid, alreadyPartitioned |-> i0 > j0]

\* first x >= from with x > jj or data[aa] < data[x]
scanUpEqual(d, aa, from, jj) ==
    LET S == {x \in from..jj : Less(d, aa, x)} IN
    IF S = {} THEN (IF from > jj + 1 THEN from ELSE jj + 1)
    ELSE CHOOSE x \in S : \A y \in S : x <= y

RECURSIVE partitionEqualLoop(_, _, _, _)
partitionEqualLoop(d, aa, ii, jj) ==
    LET i1 == scanUpEqual(d, aa, ii, jj)
        j1 == scanDownGreater(d, aa, i1, jj)
    IN IF i1 > j1 THEN [d |-> d, mid |-> i1]
       ELSE partitionEqualLoop(Swap(d, i1, j1), aa, i1 + 1, j1 - 1)

\* partitionEqual(data, a, b, pivot): items equal to the pivot to the front of
\* [a, b); mid is the end of the equal prefix.
partitionEqual(d, aa, bb, pp) ==
    partitionEqualLoop(Swap(d, aa, pp), aa, aa + 1, bb - 1)

\* bits.Len(uint(n))
RECURSIVE bitsLen(_)
bitsLen(n) == IF n = 0 THEN 0 ELSE 1 + bitsLen(n \div 2)

\* ------------------------------------------------------------ heapSelect
\* heapSelect(data, a, b, k): n := b - a; hi := k + 1
heapN == hb - ha
heapHi_Short == hk
heapHi == hk + 1
\* for i := k / 2; i >= 0; i--
heapBuildStart(kk) == kk \div 2
\* data.Swap(a, a+k)
heapPlaceIndex_NoBase(aa, kk) == kk
heapPlaceIndex(aa, kk) == aa + kk

HSEntry ==
    /\ pc = "hs_entry"
    /\ i' = heapBuildStart(hk)
    /\ pc' = "hs_build"
    /\ acc' = {}
    /\ UNCHANGED <<data, input, prev, entry, shape, kArg, j, m, nless, nswap, ncall>>
    /\ UNCHANGED <<pdqVars, heapVars, frVars>>

\* Build max-heap of the first k+1 items: siftDown(data, i, hi, a)
HSBuild ==
    /\ pc = "hs_build"
    /\ i >= 0
    /\ LET r == siftDown(data, i, heapHi, ha) IN
          IF r.ok
          THEN /\ data' = r.d
               /\ i' = i - 1
               /\ pc' = "hs_build"
          ELSE /\ data' = r.d
               /\ i' = i
               /\ pc' = "panic"
    /\ acc' = {}
    /\ ncall' = ncall + 1
    /\ UNCHANGED <<input, prev, entry, shape, kArg, j, m, nless, nswap>>
    /\ UNCHANGED <<pdqVars, heapVars, frVars>>

HSBuildDone ==
    /\ pc = "hs_build"
    /\ i < 0
    /\ i' = heapHi
    /\ pc' = "hs_scan"
    /\ acc' = {}
    /\ UNCHANGED <<data, input, prev, entry, shape, kArg, j, m, nless, nswap, ncall>>
    /\ UNCHANGED <<pdqVars, heapVars, frVars>>

\* for i := hi; i < n; i++ { j := a + i; if Less(j, a) { Swap(a, j); siftDown(0, hi, a) } }
HSScan ==
    /\ pc = "hs_scan"
    /\ i < heapN
    /\ j' = ha + i
    /\ acc' = {<<"less", ha + i, ha>>}
               \cup (IF InBounds(data, ha + i) /\ InBounds(data, ha) /\ Less(data, ha + i, ha)
                     THEN {<<"swap", ha, ha + i>>} ELSE {})
    /\ IF ~InBounds(data, ha + i) \/ ~InBounds(data, ha)
       THEN /\ pc' = "panic"
            /\ UNCHANGED <<data, i, nless, nswap, ncall>>
       ELSE IF Less(data, ha + i, ha)
       THEN LET r == siftDown(Swap(data, ha, ha + i), 0, heapHi, ha) IN
            /\ data' = r.d
            /\ pc' = IF r.ok THEN "hs_scan" ELSE "panic"
            /\ i' = IF r.ok THEN i + 1 ELSE i
            /\ nless' = nless + 1
            /\ nswap' = nswap + 1
            /\ ncall' = ncall + 1
       ELSE /\ i' = i + 1
            /\ pc' = "hs_scan"
            /\ nless' = nless + 1
            /\ UNCHANGED <<data, nswap, ncall>>
    /\ UNCHANGED <<input, prev, entry, shape, kArg, m>>
    /\ UNCHANGED <<pdqVars, heapVars, frVars>>

\* Place the k-th element into its final place: data.Swap(a, a+k)
HSPlace ==
    /\ pc = "hs_scan"
    /\ i >= heapN
    /\ LET t == heapPlaceIndex(ha, hk) IN
       /\ acc' = {<<"swap", ha, t>>}
       /\ IF InBounds(data, ha) /\ InBounds(data, t)
          THEN /\ data' = Swap(data, ha, t)
               /\ nswap' = nswap + 1
               /\ pc' = "done"
          ELSE /\ pc' = "panic"
               /\ UNCHANGED <<data, nswap>>
    /\ UNCHANGED <<input, prev, entry, shape, kArg, i, j, m, nless, ncall>>
    /\ UNCHANGED <<pdqVars, heapVars, frVars>>

\* ------------------------------------------------------------- pdqselect
\* if k < 1 || k > n { return }
kOutOfRange_NoUpper(kk, n) == kk < 1
kOutOfRange(kk, n) == kk < 1 \/ kk > n

\* PDQSelect / PDQSelectOrdered / PDQSelectFunc
PDQSelect ==
    /\ pc = "call"
    /\ entry = "PDQSelect"
    /\ IF kOutOfRange(kArg, Len(data))
       THEN /\ pc' = "done"
            /\ UNCHANGED <<a, b, k, limit>>
       ELSE /\ a' = 0
            /\ b' = Len(data)
            /\ k' = kArg - 1
            /\ limit' = bitsLen(Len(data))
            /\ pc' = "pdq_entry"
    /\ acc' = {}
    /\ UNCHANGED <<data, input, prev, entry, shape, kArg, i, j, m, nless, nswap, ncall>>
    /\ UNCHANGED <<wasBalanced, wasPartitioned, pivot, hint, heapVars, frVars>>

\* FuzzSelect: pdqselect(sort.IntSlice(slice), 0, len(slice), k-1, 0)
FuzzPdqselect ==
    /\ pc = "call"
    /\ entry = "pdqselect"
    /\ a' = 0
    /\ b' = Len(data)
    /\ k' = kArg - 1
    /\ limit' = 0
    /\ pc' = "pdq_entry"
    /\ acc' = {}
    /\ UNCHANGED <<data, input, prev, entry, shape, kArg, i, j, m, nless, nswap, ncall>>
    /\ UNCHANGED <<wasBalanced, wasPartitioned, pivot, hint, heapVars, frVars>>

\* if k == 0 { mn := a; for i := a + 1; ...
isMinTarget_UpToOne(kk) == kk <= 1
isMinTarget(kk) == kk = 0
\* if hi := b - 1; k == hi { mx := a; for i := a + 1; ...
isMaxTarget_Never(kk, bb) == FALSE
isMaxTarget(kk, bb) == kk = bb - 1

FastMin ==
    /\ pc = "pdq_entry"
    /\ isMinTarget(k)
    /\ m' = a
    /\ i' = a + 1
    /\ pc' = "min_scan"
    /\ acc' = {}
    /\ UNCHANGED <<data, input, prev, entry, shape, kArg, j, nless, nswap, ncall>>
    /\ UNCHANGED <<pdqVars, heapVars, frVars>>

\* if data.Less(i, mn) { mn = i }
MinScan ==
    /\ pc = "min_scan"
    /\ i < b
    /\ m' = IF Less(data, i, m) THEN i ELSE m
    /\ i' = i + 1
    /\ acc' = {<<"less", i, m>>}
    /\ nless' = nless + 1
    /\ UNCHANGED <<data, input, prev, entry, shape, kArg, pc, j, nswap, ncall>>
    /\ UNCHANGED <<pdqVars, heapVars, frVars>>

\* if mn != a { data.Swap(mn, a) }; the Ordered shape assigns unconditionally
swapsExtreme(sh, mm, at) == sh = "Ordered" \/ mm # at

MinPlace ==
    /\ pc = "min_scan"
    /\ i >= b
    /\ IF swapsExtreme(shape, m, a)
       THEN /\ acc' = {<<"swap", m, a>>}
            /\ IF InBounds(data, m) /\ InBounds(data, a)
               THEN /\ data' = Swap(data, m, a)
                    /\ nswap' = nswap + 1
                    /\ pc' = "done"
               ELSE /\ pc' = "panic"
                    /\ UNCHANGED <<data, nswap>>
       ELSE /\ acc' = {}
            /\ pc' = "done"
            /\ UNCHANGED <<data, nswap>>
    /\ UNCHANGED <<input, prev, entry, shape, kArg, i, j, m, nless, ncall>>
    /\ UNCHANGED <<pdqVars, heapVars, frVars>>

FastMax ==
    /\ pc = "pdq_entry"
    /\ ~isMinTarget(k)
    /\ isMaxTarget(k, b)
    /\ m' = a
    /\ i' = a + 1
    /\ pc' = "max_scan"
    /\ acc' = {}
    /\ UNCHANGED <<data, input, prev, entry, shape, kArg, j, nless, nswap, ncall>>
    /\ UNCHANGED <<pdqVars, heapVars, frVars>>

\* if data.Less(mx, i) { mx = i }; pdqselectOrdered: if data[i] > data[mx]
isLarger_OrEqual(sh, d, mx, ii) ==
    IF sh = "Ordered" THEN At(d, ii) >= At(d, mx) ELSE Less(d, mx, ii)
isLarger(sh, d, mx, ii) ==
    IF sh = "Ordered" THEN At(d, ii) > At(d, mx) ELSE Less(d, mx, ii)

MaxScan ==
    /\ pc = "max_scan"
    /\ i < b
    /\ m' = IF isLarger(shape, data, m, i) THEN i ELSE m
    /\ i' = i + 1
    /\ acc' = {<<"less", m, i>>}
    /\ nless' = nless + 1
    /\ UNCHANGED <<data, input, prev, entry, shape, kArg, pc, j, nswap, ncall>>
    /\ UNCHANGED <<pdqVars, heapVars, frVars>>

MaxPlace ==
    /\ pc = "max_scan"
    /\ i >= b
    /\ IF swapsExtreme(shape, m, b - 1)
       THEN /\ acc' = {<<"swap", m, b - 1>>}
            /\ IF InBounds(data, m) /\ InBounds(data, b - 1)
               THEN /\ data' = Swap(data, m, b - 1)
                    /\ nswap' = nswap + 1
                    /\ pc' = "done"
               ELSE /\ pc' = "panic"
                    /\ UNCHANGED <<data, nswap>>
       ELSE /\ acc' = {}
            /\ pc' = "done"
            /\ UNCHANGED <<data, nswap>>
    /\ UNCHANGED <<input, prev, entry, shape, kArg, i, j, m, nless, ncall>>
    /\ UNCHANGED <<pdqVars, heapVars, frVars>>

\* wasBalanced = true, wasPartitioned = true; for { ...
EnterLoop ==
    /\ pc = "pdq_entry"
    /\ ~isMinTarget(k)
    /\ ~isMaxTarget(k, b)
    /\ wasBalanced' = TRUE
    /\ wasPartitioned' = TRUE
    /\ pc' = "loop"
    /\ acc' = {}
    /\ UNCHANGED <<data, input, prev, entry, shape, kArg, i, j, m, nless, nswap, ncall>>
    /\ UNCHANGED <<a, b, k, limit, pivot, hint, heapVars, frVars>>

\* if length <= maxInsertion { insertionSort(data, a, b); return }
LoopInsertion ==
    /\ pc = "loop"
    /\ b - a <= maxInsertion
    /\ data' = insertionSort(data, a, b)
    /\ ncall' = ncall + 1
    /\ pc' = "done"
    /\ acc' = {}
    /\ UNCHANGED <<input, prev, entry, shape, kArg, i, j, m, nless, nswap>>
    /\ UNCHANGED <<pdqVars, heapVars, frVars>>

\* if limit == 0 { heapSelect(data, a, b, k); return }
LoopFallback ==
    /\ pc = "loop"
    /\ b - a > maxInsertion
    /\ limit = 0
    /\ ha' = a
    /\ hb' = b
    /\ hk' = k
    /\ pc' = "hs_entry"
    /\ acc' = {}
    /\ UNCHANGED <<data, input, prev, entry, shape, kArg, i, j, m, nless, nswap, ncall>>
    /\ UNCHANGED <<pdqVars, frVars>>

\* if !wasBalanced { breakPatterns(data, a, b); limit-- }
LoopBreakPatterns ==
    /\ pc = "loop"
    /\ b - a > maxInsertion
    /\ limit # 0
    /\ ~wasBalanced
    /\ data' = breakPatterns(data, a, b)
    /\ limit' = limit - 1
    /\ ncall' = ncall + 1
    /\ pc' = "choose"
    /\ acc' = {}
    /\ UNCHANGED <<input, prev, entry, shape, kArg, i, j, m, nless, nswap>>
    /\ UNCHANGED <<a, b, k, wasBalanced, wasPartitioned, pivot, hint, heapVars, frVars>>

LoopBalanced ==
    /\ pc = "loop"
    /\ b - a > maxInsertion
    /\ limit # 0
    /\ wasBalanced
    /\ pc' = "choose"
    /\ acc' = {}
    /\ UNCHANGED <<data, input, prev, entry, shape, kArg, i, j, m, nless, nswap, ncall>>
    /\ UNCHANGED <<pdqVars, heapVars, frVars>>

\* pivot, hint := choosePivot(data, a, b)
ChoosePivot ==
    /\ pc = "choose"
    /\ \E r \in pivotChoices(data, a, b) :
          /\ pivot' = r.pivot
          /\ hint' = r.hint
    /\ ncall' = ncall + 1
    /\ pc' = "chosen"
    /\ acc' = {}
    /\ UNCHANGED <<data, input, prev, entry, shape, kArg, i, j, m, nless, nswap>>
    /\ UNCHANGED <<a, b, k, limit, wasBalanced, wasPartitioned, heapVars, frVars>>

\* pivot = (b - 1) - (pivot - a)
mirrorPivot(pp, aa, bb) == (bb - 1) - (pp - aa)

\* if hint == decreasingHint { reverseRange(data, a, b); pivot = ...; hint = increasingHint }
ReverseRange ==
    /\ pc = "chosen"
    /\ hint = "decreasing"
    /\ data' = reverseRange(data, a, b)
    /\ pivot' = mirrorPivot(pivot, a, b)
    /\ hint' = "increasing"
    /\ ncall' = ncall + 1
    /\ acc' = {}
    /\ UNCHANGED <<input, prev, entry, shape, kArg, pc, i, j, m, nless, nswap>>
    /\ UNCHANGED <<a, b, k, limit, wasBalanced, wasPartitioned, heapVars, frVars>>

probeWanted == wasBalanced /\ wasPartitioned /\ hint = "increasing"

\* if wasBalanced && wasPartitioned && hint == increasingHint {
\*     if partialInsertionSort(data, a, b) { return } }
ProbeSorted ==
    /\ pc = "chosen"
    /\ hint # "decreasing"
    /\ probeWanted
    /\ LET r == partialInsertionSort(data, a, b) IN
       /\ data' = r.d
       /\ pc' = IF r.done THEN "done" ELSE "eqcheck"
    /\ ncall' = ncall + 1
    /\ acc' = {}
    /\ UNCHANGED <<input, prev, entry, shape, kArg, i, j, m, nless, nswap>>
    /\ UNCHANGED <<pdqVars, heapVars, frVars>>

SkipProbe ==
    /\ pc = "chosen"
    /\ hint # "decreasing"
    /\ ~probeWanted
    /\ pc' = "eqcheck"
    /\ acc' = {}
    /\ UNCHANGED <<data, input, prev, entry, shape, kArg, i, j, m, nless, nswap, ncall>>
    /\ UNCHANGED <<pdqVars, heapVars, frVars>>

\* !data.Less(a-1, pivot); pdqselectOrdered: data[a-1] >= data[pivot]
notLess(sh, d, x, y) ==
    IF sh = "Ordered" THEN At(d, x) >= At(d, y) ELSE ~Less(d, x, y)

\* a > 0 && !data.Less(a-1, pivot)
equalRun == a > 0 /\ notLess(shape, data, a - 1, pivot)

\* if k < mid { return }
inEqualRun_Never(kk, mid) == FALSE
inEqualRun(kk, mid) == kk < mid

\* mid := partitionEqual(data, a, b, pivot); if k < mid { return }; a = mid; continue
PartitionEqual ==
    /\ pc = "eqcheck"
    /\ equalRun
    /\ LET r == partitionEqual(data, a, b, pivot) IN
       /\ data' = r.d
       /\ IF inEqualRun(k, r.mid)
          THEN /\ pc' = "done"
               /\ a' = a
          ELSE /\ pc' = "loop"
               /\ a' = r.mid
    /\ acc' = {<<"less", a - 1, pivot>>}
    /\ nless' = nless + 1
    /\ ncall' = ncall + 1
    /\ UNCHANGED <<input, prev, entry, shape, kArg, i, j, m, nswap>>
    /\ UNCHANGED <<b, k, limit, wasBalanced, wasPartitioned, pivot, hint, heapVars, frVars>>

\* if k == mid { return }
pivotIsTarget_OrLeft(kk, mid) == kk <= mid
pivotIsTarget(kk, mid) == kk = mid
\* if k < mid { ...; b = mid } else { ...; a = mid + 1 }
goesLeft_Inverted(kk, mid) == kk > mid
goesLeft(kk, mid) == kk < mid
rightStart_Back(mid) == mid - 1
rightStart(mid) == mid + 1
\* balanceThreshold := length / 8
balanceThreshold_Half(length) == length \div 2
balanceThreshold(length) == length \div 8

\* mid, alreadyPartitioned := partition(data, a, b, pivot) and the choice of side
Partition ==
    /\ pc = "eqcheck"
    /\ ~equalRun
    /\ LET r == partition(data, a, b, pivot)
           length == b - a
           leftLen == r.mid - a
           rightLen == b - r.mid
       IN
       /\ data' = r.d
       /\ IF pivotIsTarget(k, r.mid)
          THEN /\ pc' = "done"
               /\ UNCHANGED <<a, b, wasBalanced, wasPartitioned>>
          ELSE /\ pc' = "loop"
               /\ wasPartitioned' = r.alreadyPartitioned
               /\ IF goesLeft(k, r.mid)
                  THEN /\ wasBalanced' = (leftLen >= balanceThreshold(length))
                       /\ b' = r.mid
                       /\ a' = a
                  ELSE /\ wasBalanced' = (rightLen >= balanceThreshold(length))
                       /\ a' = rightStart(r.mid)
                       /\ b' = b
    /\ acc' = IF a > 0 THEN {<<"less", a - 1, pivot>>} ELSE {}
    /\ nless' = IF a > 0 THEN nless + 1 ELSE nless
    /\ ncall' = ncall + 1
    /\ UNCHANGED <<input, prev, entry, shape, kArg, i, j, m, nswap>>
    /\ UNCHANGED <<k, limit, pivot, hint, heapVars, frVars>>

\* ------------------------------------------------------------ floydRivest
\* if k < 1 || k > n { return }
frKOutOfRange_NoLower(kk, n) == kk > n
frKOutOfRange(kk, n) == kk < 1 \/ kk > n

\* FloydRivest / FloydRivestOrdered / FloydRivestFunc
FloydRivest ==
    /\ pc = "call"
    /\ entry = "FloydRivest"
    /\ IF frKOutOfRange(kArg, Len(data))
       THEN /\ pc' = "done"
            /\ UNCHANGED <<left, right, k>>
       ELSE /\ left' = 0
            /\ right' = Len(data) - 1
            /\ k' = kArg - 1
            /\ pc' = "fr_loop"
    /\ acc' = {}
    /\ UNCHANGED <<data, input, prev, entry, shape, kArg, i, j, m, nless, nswap, ncall>>
    /\ UNCHANGED <<a, b, limit, wasBalanced, wasPartitioned, pivot, hint, heapVars, swap, stack>>

\* Order-statistics estimate of the narrowed range. The Go code computes it in
\* float64 (math.Log, math.Exp, math.Sqrt); here every quantity is enclosed between
\* integer bounds and each integer the truncated float expression can take inside
\* the enclosure is a possible outcome.
\*   z  = ln n,              100 z   in [69 (L-1), 70 L]  with L = bits.Len(n)
\*   s  = 0.5 exp(2z/3),     10 s    in [c \div 2, (c+1) \div 2 + 1], c = floor(10 n^(2/3))
\*   sd = 0.5 sqrt(z s (n-s)/n),  (10 sd)^2 = 100 z * 10 s * (10n - 10 s) / (400 n)
cbrt10(n) == CHOOSE c \in 0..1290 : c * c * c <= 1000 * n * n /\ 1000 * n * n < (c + 1) * (c + 1) * (c + 1)
isqrt(y) == CHOOSE r \in 0..1000 : r * r <= y /\ y < (r + 1) * (r + 1)
truncDiv(v, q) == IF v >= 0 THEN v \div q ELSE 0 - ((0 - v) \div q)

estimate(n) ==
    LET L == bitsLen(n)
        c == cbrt10(n)
        sLo == c \div 2
        sHi == (c + 1) \div 2 + 1
        zLo == 69 * (L - 1)
        zHi == 70 * L
    IN [sLo |-> sLo, sHi |-> sHi,
        sdLo |-> isqrt((zLo * sLo * (10 * n - sHi)) \div (400 * n)),
        sdHi |-> isqrt((zHi * sHi * (10 * n - sLo)) \div (400 * n)) + 1]

maxInt(x, y) == IF x >= y THEN x ELSE y
minInt(x, y) == IF x <= y THEN x ELSE y

\* newLeft := max(left, int(float64(k) - float64(i)*s/float64(n) + sd))
newLefts(ll, rr, kk) ==
    LET n == rr - ll + 1
        ii == kk - ll + 1
        e == estimate(n)
        neg == ii < n \div 2
        vLo == 10 * n * kk - ii * e.sHi + (IF neg THEN 0 - e.sdHi * n ELSE e.sdLo * n)
        vHi == 10 * n * kk - ii * e.sLo + (IF neg THEN 0 - e.sdLo * n ELSE e.sdHi * n)
    IN {maxInt(ll, t) : t \in truncDiv(vLo, 10 * n)..truncDiv(vHi, 10 * n)}

\* newRight := min(right, int(float64(k) + float64(n-i)*s/float64(n) + sd))
newRights(ll, rr, kk) ==
    LET n == rr - ll + 1
        ii == kk - ll + 1
        e == estimate(n)
        neg == ii < n \div 2
        vLo == 10 * n * kk + (n - ii) * e.sLo + (IF neg THEN 0 - e.sdHi * n ELSE e.sdLo * n)
        vHi == 10 * n * kk + (n - ii) * e.sHi + (IF neg THEN 0 - e.sdLo * n ELSE e.sdHi * n)
    IN {minInt(rr, t) : t \in truncDiv(vLo, 10 * n)..truncDiv(vHi, 10 * n)}

\* for right > left { size := right - left; if size > rangeNarrowingThreshold { ...
\*     floydRivest(data, newLeft, newRight, k) }
FRNarrow ==
    /\ pc = "fr_loop"
    /\ right > left
    /\ right - left > rangeNarrowingThreshold
    /\ \E nl \in newLefts(left, right, k), nr \in newRights(left, right, k) :
          /\ left' = nl
          /\ right' = nr
    /\ stack' = Append(stack, [left |-> left, right |-> right])
    /\ acc' = {}
    /\ UNCHANGED <<data, input, prev, entry, shape, kArg, pc, i, j, m, nless, nswap, ncall>>
    /\ UNCHANGED <<pdqVars, heapVars, swap>>

FRNoNarrow ==
    /\ pc = "fr_loop"
    /\ right > left
    /\ right - left <= rangeNarrowingThreshold
    /\ pc' = "fr_pivot"
    /\ acc' = {}
    /\ UNCHANGED <<data, input, prev, entry, shape, kArg, i, j, m, nless, nswap, ncall>>
    /\ UNCHANGED <<pdqVars, heapVars, frVars>>

\* the loop test fails in the outermost call: FloydRivest returns
FRReturn ==
    /\ pc = "fr_loop"
    /\ ~(right > left)
    /\ stack = <<>>
    /\ pc' = "done"
    /\ acc' = {}
    /\ UNCHANGED <<data, input, prev, entry, shape, kArg, i, j, m, nless, nswap, ncall>>
    /\ UNCHANGED <<pdqVars, heapVars, frVars>>

\* the loop test fails in a narrowing call: back in the caller, before its partition
FRReturnNarrowed ==
    /\ pc = "fr_loop"
    /\ ~(right > left)
    /\ stack # <<>>
    /\ left' = stack[Len(stack)].left
    /\ right' = stack[Len(stack)].right
    /\ stack' = SubSeq(stack, 1, Len(stack) - 1)
    /\ pc' = "fr_pivot"
    /\ acc' = {}
    /\ UNCHANGED <<data, input, prev, entry, shape, kArg, i, j, m, nless, nswap, ncall>>
    /\ UNCHANGED <<pdqVars, heapVars, swap>>

\* i, j := left, right; data.Swap(left, k)
FRPivot ==
    /\ pc = "fr_pivot"
    /\ i' = left
    /\ j' = right
    /\ acc' = {<<"swap", left, k>>}
    /\ IF InBounds(data, left) /\ InBounds(data, k)
       THEN /\ data' = Swap(data, left, k)
            /\ nswap' = nswap + 1
            /\ pc' = "fr_orient"
       ELSE /\ pc' = "panic"
            /\ UNCHANGED <<data, nswap>>
    /\ UNCHANGED <<input, prev, entry, shape, kArg, m, nless, ncall>>
    /\ UNCHANGED <<pdqVars, heapVars, frVars>>

\* swap := data.Less(left, right); pivot := right; if swap { data.Swap(left, right); pivot = left }
FROrient ==
    /\ pc = "fr_orient"
    /\ IF InBounds(data, left) /\ InBounds(data, right)
       THEN /\ swap' = Less(data, left, right)
            /\ IF Less(data, left, right)
               THEN /\ data' = Swap(data, left, right)
                    /\ pivot' = left
                    /\ nswap' = nswap + 1
                    /\ acc' = {<<"less", left, right>>, <<"swap", left, right>>}
               ELSE /\ pivot' = right
                    /\ acc' = {<<"less", left, right>>}
                    /\ UNCHANGED <<data, nswap>>
            /\ nless' = nless + 1
            /\ pc' = "fr_inner"
       ELSE /\ pc' = "panic"
            /\ acc' = {<<"less", left, right>>}
            /\ UNCHANGED <<data, swap, pivot, nswap, nless>>
    /\ UNCHANGED <<input, prev, entry, shape, kArg, i, j, m, ncall>>
    /\ UNCHANGED <<a, b, k, limit, wasBalanced, wasPartitioned, hint, heapVars, left, right, stack>>

\* for i < j { data.Swap(i, j); i++; j--; ...
FRInner ==
    /\ pc = "fr_inner"
    /\ i < j
    /\ acc' = {<<"swap", i, j>>}
    /\ IF InBounds(data, i) /\ InBounds(data, j)
       THEN /\ data' = Swap(data, i, j)
            /\ i' = i + 1
            /\ j' = j - 1
            /\ nswap' = nswap + 1
            /\ pc' = "fr_scan_i"
       ELSE /\ pc' = "panic"
            /\ UNCHANGED <<data, i, j, nswap>>
    /\ UNCHANGED <<input, prev, entry, shape, kArg, m, nless, ncall>>
    /\ UNCHANGED <<pdqVars, heapVars, frVars>>

\* for data.Less(i, pivot) { i++ }
FRScanI ==
    /\ pc = "fr_scan_i"
    /\ acc' = {<<"less", i, pivot>>}
    /\ IF InBounds(data, i) /\ InBounds(data, pivot)
       THEN /\ nless' = nless + 1
            /\ IF Less(data, i, pivot)
               THEN /\ i' = i + 1
                    /\ pc' = "fr_scan_i"
               ELSE /\ i' = i
                    /\ pc' = "fr_scan_j"
       ELSE /\ pc' = "panic"
            /\ UNCHANGED <<i, nless>>
    /\ UNCHANGED <<data, input, prev, entry, shape, kArg, j, m, nswap, ncall>>
    /\ UNCHANGED <<pdqVars, heapVars, frVars>>

\* for data.Less(pivot, j) { j-- }
FRScanJ ==
    /\ pc = "fr_scan_j"
    /\ acc' = {<<"less", pivot, j>>}
    /\ IF InBounds(data, j) /\ InBounds(data, pivot)
       THEN /\ nless' = nless + 1
            /\ IF Less(data, pivot, j)
               THEN /\ j' = j - 1
                    /\ pc' = "fr_scan_j"
               ELSE /\ j' = j
                    /\ pc' = "fr_inner"
       ELSE /\ pc' = "panic"
            /\ UNCHANGED <<j, nless>>
    /\ UNCHANGED <<data, input, prev, entry, shape, kArg, i, m, nswap, ncall>>
    /\ UNCHANGED <<pdqVars, heapVars, frVars>>

\* if swap { data.Swap(left, j) } else { j++; data.Swap(right, j) }
finalIndex_NoStep(sw, jj) == jj
finalIndex(sw, jj) == IF sw THEN jj ELSE jj + 1

FRFinal ==
    /\ pc = "fr_inner"
    /\ ~(i < j)
    /\ LET jf == finalIndex(swap, j)
           from == IF swap THEN left ELSE right
       IN
       /\ j' = jf
       /\ acc' = {<<"swap", from, jf>>}
       /\ IF InBounds(data, from) /\ InBounds(data, jf)
          THEN /\ data' = Swap(data, from, jf)
               /\ nswap' = nswap + 1
               /\ pc' = "fr_shrink"
          ELSE /\ pc' = "panic"
               /\ UNCHANGED <<data, nswap>>
    /\ UNCHANGED <<input, prev, entry, shape, kArg, i, m, nless, ncall>>
    /\ UNCHANGED <<pdqVars, heapVars, frVars>>

\* if j <= k { left = j + 1 }
shrinkLeft_Keep(ll, jj, kk) == IF jj <= kk THEN jj ELSE ll
shrinkLeft(ll, jj, kk) == IF jj <= kk THEN jj + 1 ELSE ll
\* if k <= j { right = j - 1 }
shrinkRight_Strict(rr, jj, kk) == IF kk < jj THEN jj - 1 ELSE rr
shrinkRight(rr, jj, kk) == IF kk <= jj THEN jj - 1 ELSE rr

FRShrink ==
    /\ pc = "fr_shrink"
    /\ left' = shrinkLeft(left, j, k)
    /\ right' = shrinkRight(right, j, k)
    /\ pc' = "fr_loop"
    /\ acc' = {}
    /\ UNCHANGED <<data, input, prev, entry, shape, kArg, i, j, m, nless, nswap, ncall>>
    /\ UNCHANGED <<pdqVars, heapVars, swap, stack>>

\* FuzzSelect: heapSelect(sort.IntSlice(slice), a, b, k-1) on every sub-range
\* 0 <= a < b <= N with 1 <= k <= b - a.
InitHeap ==
    /\ input \in SmallInputs
    /\ data = input
    /\ entry = "heapSelect"
    /\ shape = "Interface"
    /\ ha \in 0..Len(input)
    /\ hb \in 0..Len(input)
    /\ ha < hb
    /\ kArg \in 1..(hb - ha)
    /\ hk = kArg - 1
    /\ pc = "hs_entry"
    /\ a = 0 /\ b = 0 /\ k = 0 /\ limit = 0
    /\ wasBalanced = TRUE /\ wasPartitioned = TRUE
    /\ pivot = 0 /\ hint = "unknown"
    /\ i = 0 /\ j = 0 /\ m = 0
    /\ left = 0 /\ right = 0 /\ swap = FALSE /\ stack = <<>>
    /\ acc = {} /\ nless = 0 /\ nswap = 0 /\ ncall = 0
    /\ prev = <<>>

NextHeap == HSEntry \/ HSBuild \/ HSBuildDone \/ HSScan \/ HSPlace

SpecHeap == InitHeap /\ [][NextHeap]_vars

\* ------------------------------------------------ PDQSelect specification
Idle ==
    /\ data = input
    /\ pc = "call"
    /\ a = 0 /\ b = 0 /\ k = 0 /\ limit = 0
    /\ wasBalanced = TRUE /\ wasPartitioned = TRUE
    /\ pivot = 0 /\ hint = "unknown"
    /\ i = 0 /\ j = 0 /\ m = 0
    /\ ha = 0 /\ hb = 0 /\ hk = 0
    /\ left = 0 /\ right = 0 /\ swap = FALSE /\ stack = <<>>
    /\ acc = {} /\ nless = 0 /\ nswap = 0 /\ ncall = 0
    /\ prev = <<>>

\* The public entry points take any k; FuzzSelect calls pdqselect with limit 0 and
\* 1 <= k <= len on non-empty slices. The long inputs are run through PDQSelect
\* with targets on either side of their first pivot.
BigTargets(n) ==
    {2, 7, maxInsertion + 1, n - maxInsertion, n - 8, n - 2, n - 1}

InitPDQ ==
    /\ \/ /\ input \in SmallInputs \cup MidInputs
          /\ entry \in {"PDQSelect", "pdqselect"}
          /\ shape \in Shapes
          /\ kArg \in IF entry = "PDQSelect" THEN 0..(Len(input) + 1) ELSE 1..Len(input)
       \/ /\ input \in BigInputs
          /\ entry = "PDQSelect"
          /\ shape = "Interface"
          /\ kArg \in BigTargets(Len(input))
    /\ Idle

NextPDQ ==
    \/ PDQSelect \/ FuzzPdqselect
    \/ FastMin \/ MinScan \/ MinPlace
    \/ FastMax \/ MaxScan \/ MaxPlace
    \/ EnterLoop
    \/ LoopInsertion \/ LoopFallback \/ LoopBreakPatterns \/ LoopBalanced
    \/ ChoosePivot \/ ReverseRange \/ ProbeSorted \/ SkipProbe
    \/ PartitionEqual \/ Partition
    \/ HSEntry \/ HSBuild \/ HSBuildDone \/ HSScan \/ HSPlace

SpecPDQ == InitPDQ /\ [][NextPDQ]_vars

\* ---------------------------------------------- FloydRivest specification
NarrowLen == rangeNarrowingThreshold + 2 + NarrowExtra
\* a sawtooth with many duplicates, a scramble, and a descending staircase
NarrowInputs ==
    {Pattern(4, NarrowLen), Pattern(9, NarrowLen),
     [x \in 1..NarrowLen |-> (NarrowLen - x) \div 100]}
NarrowTargets(n) == {2, n \div 2, n - 1}

InitFR ==
    /\ \/ /\ input \in SmallInputs \cup MidInputs
          /\ shape \in Shapes
          /\ kArg \in 0..(Len(input) + 1)
       \/ /\ input \in NarrowInputs
          /\ shape = "Interface"
          /\ kArg \in NarrowTargets(Len(input))
    /\ entry = "FloydRivest"
    /\ Idle

NextFR ==
    \/ FloydRivest
    \/ FRNarrow \/ FRNoNarrow \/ FRReturn \/ FRReturnNarrowed
    \/ FRPivot \/ FROrient \/ FRInner \/ FRScanI \/ FRScanJ \/ FRFinal \/ FRShrink

SpecFR == InitFR /\ [][NextFR]_vars

\* ------------------------------------------------- all six entry points
Init == InitPDQ \/ InitFR
Next == NextPDQ \/ NextFR
Spec == Init /\ [][Next]_vars

\* ------------------------------------------------------------ properties
CountLess(d, lo, hi, v) == Cardinality({x \in lo..(hi - 1) : At(d, x) < v})
CountLeq(d, lo, hi, v) == Cardinality({x \in lo..(hi - 1) : At(d, x) <= v})
CountEq(d, lo, hi, v) == Cardinality({x \in lo..(hi - 1) : At(d, x) = v})
ItemsOf(d, lo, hi) == {At(d, x) : x \in lo..(hi - 1)}

\* the r-th smallest (r = 1 is the minimum) of d[lo], ..., d[hi-1]: what sorting
\* that range ascending puts at its index r-1
RankValue(d, lo, hi, r) ==
    CHOOSE v \in ItemsOf(d, lo, hi) :
        CountLess(d, lo, hi, v) < r /\ r <= CountLeq(d, lo, hi, v)

\* d is a permutation of e: the same length, and every item of e as often in d
\* (the counts add up to the length, so d holds nothing else)
SameItems(d, e) ==
    /\ Len(d) = Len(e)
    /\ \A v \in ItemsOf(e, 0, Len(e)) :
          CountEq(d, 0, Len(d), v) = CountEq(e, 0, Len(e), v)

ValidK == 1 <= kArg /\ kArg <= Len(input)
Target == RankValue(input, 0, Len(input), kArg)

\* data[0..k) <= t <= data[k..n), and data[0..k) holds exactly the k smallest
\* items of the input (as a multiset)
SplitAround(t) ==
    /\ \A x \in 0..(kArg - 1) : At(data, x) <= t
    /\ \A x \in kArg..(Len(data) - 1) : At(data, x) >= t
    /\ \A v \in ItemsOf(input, 0, Len(input)) :
          CountEq(data, 0, kArg, v) =
              IF v < t THEN CountEq(input, 0, Len(input), v)
              ELSE IF v = t THEN kArg - CountLess(input, 0, Len(input), t)
              ELSE 0

\* C1: for every sequence and every k with 1 <= k <= N, PDQSelect (in each of its
\* three shapes) returns without panicking and position k-1 then holds the value
\* that sorting the input ascending puts at index k-1.
C1_PDQKthInPlace ==
    (entry = "PDQSelect" /\ ValidK) =>
        /\ pc # "panic"
        /\ pc = "done" => At(data, kArg - 1) = Target

\* a call that partitioned, then narrowed the range on both sides, has returned
C1_Witness ==
    /\ pc = "done" /\ entry = "PDQSelect" /\ ValidK
    /\ a > 0 /\ b < Len(input)
    /\ data # input

\* C2: after PDQSelect returns, every item in [0, k) is <= the k-th smallest of the
\* input and every item in [k, N) is >= it, and the first k positions hold exactly
\* the k smallest items of the input.
C2_PDQSplit ==
    (entry = "PDQSelect" /\ ValidK /\ pc = "done") => SplitAround(Target)

\* a call that returned from the equal-run path after an imbalanced partition
C2_Witness ==
    /\ pc = "done" /\ entry = "PDQSelect" /\ ValidK
    /\ a > 0 /\ ~wasBalanced
    /\ Len(input) > maxInsertion

\* C3: for every sequence and every k with 1 <= k <= N, FloydRivest returns without
\* panicking and position k-1 then holds the value that sorting the input
\* ascending puts at index k-1.
C3_FRKthInPlace ==
    (entry = "FloydRivest" /\ ValidK) =>
        /\ pc # "panic"
        /\ pc = "done" => At(data, kArg - 1) = Target

\* a call on an input long enough for range narrowing has returned
C3_Witness ==
    /\ pc = "done" /\ entry = "FloydRivest" /\ ValidK
    /\ Len(input) > rangeNarrowingThreshold + 1
    /\ data # input

\* C4: after FloydRivest returns, every item in [0, k) is <= the k-th smallest of
\* the input and every item in [k, N) is >= it, and the first k positions hold
\* exactly the k smallest items of the input.
C4_FRSplit ==
    (entry = "FloydRivest" /\ ValidK /\ pc = "done") => SplitAround(Target)

\* a call on a sequence with duplicates of the target on both sides has returned
C4_Witness ==
    /\ pc = "done" /\ entry = "FloydRivest" /\ ValidK
    /\ Len(input) > maxInsertion
    /\ CountEq(input, 0, Len(input), Target) >= 3
    /\ CountLess(input, 0, Len(input), Target) >= 2
    /\ data # input

\* C5: PDQSelect only permutes: in every state of a call (and of the limit-0 call
\* that takes the heap-select fallback) the sequence holds the items of the input.
C5_PDQPermutes == entry \in {"PDQSelect", "pdqselect"} => SameItems(data, input)

\* in the loop after a pattern break, with the sequence rearranged
C5_Witness ==
    /\ pc = "choose" /\ entry = "PDQSelect"
    /\ ~wasBalanced
    /\ data # input

\* C6: FloydRivest only permutes: in every state of a call, inside the recursive
\* narrowing call too, the sequence holds the items of the input.
C6_FRPermutes ==
    entry = "FloydRivest" => SameItems(data, input)

\* inside the narrowing call, in the middle of its partition
C6_Witness ==
    /\ pc = "fr_scan_j" /\ entry = "FloydRivest"
    /\ stack # <<>>
    /\ data # input

\* C7: with k < 1 or k > N each entry point returns at once: no Less, no Swap, no
\* helper call, and the sequence is unchanged position by position.
C7_NoOpOutOfRange ==
    (entry \in {"PDQSelect", "FloydRivest"} /\ ~ValidK) =>
        /\ pc \in {"call", "done"}
        /\ data = input
        /\ nless = 0 /\ nswap = 0 /\ ncall = 0 /\ acc = {}

\* returned from a call with k = N + 1 on a non-empty sequence
C7_Witness ==
    /\ pc = "done" /\ entry \in {"PDQSelect", "FloydRivest"}
    /\ kArg = Len(input) + 1
    /\ Len(input) > 0

\* Some step of the call can be taken: one of the steps that only test and move
\* indices or sift the heap, or one of those that run a helper over the range,
\* which are enabled exactly when their test holds.
PDQCanStep ==
    \/ ENABLED (\/ PDQSelect \/ FuzzPdqselect
                \/ FastMin \/ MinScan \/ MinPlace
                \/ FastMax \/ MaxScan \/ MaxPlace
                \/ EnterLoop
                \/ LoopFallback \/ LoopBalanced \/ SkipProbe
                \/ HSEntry \/ HSBuild \/ HSBuildDone \/ HSScan \/ HSPlace)
    \/ (pc = "loop" /\ (b - a <= maxInsertion \/ (limit # 0 /\ ~wasBalanced)))
    \/ pc = "choose"
    \/ (pc = "chosen" /\ (hint = "decreasing" \/ probeWanted))
    \/ pc = "eqcheck"

\* A natural number that every step of pdqselect and heapSelect lowers: the length
\* of the working range first, then the position inside the iteration; in the
\* scans, what is left to scan.
PDQVariant ==
    LET n == Len(input) IN
    CASE pc = "call" -> 8 * (n + 3)
      [] pc = "pdq_entry" -> 8 * (n + 2)
      [] pc \in {"min_scan", "max_scan"} -> b - i + 1
      [] pc = "loop" -> 8 * (b - a) + 7
      [] pc = "choose" -> 8 * (b - a) + 6
      [] pc = "chosen" -> 8 * (b - a) + (IF hint = "decreasing" THEN 5 ELSE 4)
      [] pc = "eqcheck" -> 8 * (b - a) + 3
      [] pc = "hs_entry" -> 2 * heapN + 4
      [] pc = "hs_build" -> heapN + i + 3
      [] pc = "hs_scan" -> heapN - i + 1
      [] OTHER -> 0

\* C8: PDQSelect terminates: a loop iteration that does not return continues with a
\* strictly shorter range inside the old one; every step lowers a natural-valued
\* variant; and the call is never stuck before it returns.
C8_PDQTerminates ==
    /\ [][(pc = "eqcheck" /\ pc' = "loop") =>
             (a <= a' /\ b' <= b /\ b' - a' < b - a)]_vars
    /\ [][PDQVariant' < PDQVariant]_vars
    /\ [](PDQVariant >= 0)
    /\ [](pc = "done" \/ PDQCanStep)

\* back at the loop head with a shorter range, on an input with duplicates
C8_Witness ==
    /\ pc = "loop" /\ entry = "PDQSelect"
    /\ b - a < Len(input)
    /\ CountEq(input, 0, Len(input), At(input, 0)) >= 3

\* Some step of the call can be taken; the narrowing step is enabled exactly when
\* its test holds and the estimate yields bounds.
FRCanStep ==
    \/ ENABLED (\/ FloydRivest
                \/ FRNoNarrow \/ FRReturn \/ FRReturnNarrowed
                \/ FRPivot \/ FROrient \/ FRInner \/ FRScanI \/ FRScanJ
                \/ FRFinal \/ FRShrink)
    \/ /\ pc = "fr_loop"
       /\ right > left
       /\ right - left > rangeNarrowingThreshold
       /\ newLefts(left, right, k) # {}
       /\ newRights(left, right, k) # {}

\* One natural number per call of floydRivest on the stack, outermost first: the
\* size of its range first, then its position inside the iteration; in the inner
\* loop, the distance left between i and j. Every step lowers the tuple in the
\* lexicographic order.
FRWeight(ll, rr, rank) == (rr - ll + 2) * (6 * Len(input) + 12) + rank

FRRank ==
    LET top == 6 * Len(input) + 12
        dist == j - i + Len(input) + 2
    IN CASE pc = "fr_loop" -> top - 1
         [] pc = "fr_pivot" -> top - 3
         [] pc = "fr_orient" -> top - 4
         [] pc = "fr_scan_i" -> 3 * dist + 3
         [] pc = "fr_scan_j" -> 3 * dist + 2
         [] pc = "fr_inner" -> 3 * dist + 1
         [] OTHER -> 0

FRMeasure ==
    IF pc = "call" THEN <<(Len(input) + 3) * (6 * Len(input) + 12)>>
    ELSE IF pc \in {"done", "panic"} THEN <<0>>
    ELSE [f \in 1..(Len(stack) + 1) |->
            IF f <= Len(stack)
            THEN FRWeight(stack[f].left, stack[f].right, 6 * Len(input) + 10)
            ELSE FRWeight(left, right, FRRank)]

LexLess(x, y) ==
    \E p \in 1..minInt(Len(x), Len(y)) :
        /\ \A q \in 1..(p - 1) : x[q] = y[q]
        /\ x[p] < y[p]

\* C9: FloydRivest terminates: after the final pivot placement left <= j <= right,
\* so every outer iteration strictly shrinks right - left; a narrowing call gets a
\* strictly smaller range; no scan leaves the sequence; every step lowers the
\* variant; and the call is never stuck before it returns.
C9_FRTerminates ==
    /\ [](pc = "fr_shrink" => (left <= j /\ j <= right))
    /\ [][pc = "fr_shrink" => (right' - left' < right - left)]_vars
    /\ [][Len(stack') > Len(stack) => (right' - left' < right - left)]_vars
    /\ [][LexLess(FRMeasure', FRMeasure)]_vars
    /\ [](\A f \in 1..Len(FRMeasure) : FRMeasure[f] >= 0)
    /\ [](pc = "done" \/ FRCanStep)

\* a second outer iteration on an all-equal sequence
C9_Witness ==
    /\ pc = "fr_pivot" /\ entry = "FloydRivest"
    /\ right - left < Len(input) - 1
    /\ Len(input) >= 3
    /\ \A x \in 1..Len(input) : input[x] = input[1]

\* C10: after heapSelect(data, a, b, k) position a+k holds the (k+1)-th smallest
\* item of the original data[a:b], positions [a, a+k) hold items <= it and
\* positions (a+k, b) hold items >= it.
C10_HeapSelectPost ==
    entry = "heapSelect" =>
        /\ pc # "panic"
        /\ pc = "done" =>
              /\ At(data, ha + hk) = RankValue(input, ha, hb, hk + 1)
              /\ \A x \in ha..(ha + hk - 1) : At(data, x) <= At(data, ha + hk)
              /\ \A x \in (ha + hk + 1)..(hb - 1) : At(data, x) >= At(data, ha + hk)

\* a sub-range that starts after position 0, with a heap of two or more items
\* that took in an item during the scan
C10_Witness ==
    /\ pc = "done" /\ entry = "heapSelect"
    /\ ha > 0 /\ hk >= 1 /\ hb - ha > hk + 1
    /\ nswap >= 2

\* C11: pdqselect(data, 0, N, k-1, 0) with 1 <= k <= N, the call FuzzSelect makes,
\* returns without panicking with the k-th smallest at k-1, positions [0, k)
\* holding the k smallest items and positions [k, N) holding items >= it.
C11_LimitZeroPost ==
    (entry = "pdqselect" /\ ValidK) =>
        /\ pc # "panic"
        /\ pc = "done" =>
              /\ At(data, kArg - 1) = Target
              /\ SplitAround(Target)

\* a call that went through heapSelect on the whole sequence and rearranged it
C11_Witness ==
    /\ pc = "done" /\ entry = "pdqselect"
    /\ Len(input) > maxInsertion
    /\ 1 < kArg /\ kArg < Len(input)
    /\ ha = 0 /\ hb = Len(input) /\ hk = kArg - 1
    /\ data # input

\* ------------------------------------------------------- a second call
\* The caller invokes the same entry point again, with the same k, on the sequence
\* the first call left: a fresh activation, with the first result kept in prev.
CallAgain ==
    /\ pc = "done"
    /\ prev = <<>>
    /\ entry \in {"PDQSelect", "FloydRivest"}
    /\ prev' = <<data>>
    /\ pc' = "call"
    /\ a' = 0 /\ b' = 0 /\ k' = 0 /\ limit' = 0
    /\ wasBalanced' = TRUE /\ wasPartitioned' = TRUE
    /\ pivot' = 0 /\ hint' = "unknown"
    /\ i' = 0 /\ j' = 0 /\ m' = 0
    /\ ha' = 0 /\ hb' = 0 /\ hk' = 0
    /\ left' = 0 /\ right' = 0 /\ swap' = FALSE /\ stack' = <<>>
    /\ acc' = {} /\ nless' = 0 /\ nswap' = 0 /\ ncall' = 0
    /\ UNCHANGED <<data, input, entry, shape, kArg>>

NextTwice == Next \/ CallAgain
SpecTwice == Init /\ [][NextTwice]_vars

\* C12: idempotence: a second run of either selector, with the same k, on the
\* result S' of a first run ends with the items of S' and with the value S' has
\* at k-1 again at k-1.
C12_Idempotent ==
    (pc = "done" /\ prev # <<>>) =>
        /\ SameItems(data, prev[1])
        /\ ValidK => At(data, kArg - 1) = At(prev[1], kArg - 1)

\* a second run that rearranged the result of the first
C12_Witness ==
    /\ pc = "done" /\ prev # <<>> /\ ValidK
    /\ prev[1] # input
    /\ data # prev[1]
    /\ nswap > 0

\* ------------------------------------------------- the three shapes in turn
\* The caller runs the entry point of the next surface shape, with the same k, on a
\* fresh copy of the same input (as FuzzSelect does through testSelect); the
\* result of the shape that just returned is kept in prev.
nextShape(sh) == IF sh = "Interface" THEN "Ordered" ELSE "Func"

CallNextShape ==
    /\ pc = "done"
    /\ entry \in {"PDQSelect", "FloydRivest"}
    /\ shape # "Func"
    /\ prev' = Append(prev, data)
    /\ data' = input
    /\ shape' = nextShape(shape)
    /\ pc' = "call"
    /\ a' = 0 /\ b' = 0 /\ k' = 0 /\ limit' = 0
    /\ wasBalanced' = TRUE /\ wasPartitioned' = TRUE
    /\ pivot' = 0 /\ hint' = "unknown"
    /\ i' = 0 /\ j' = 0 /\ m' = 0
    /\ ha' = 0 /\ hb' = 0 /\ hk' = 0
    /\ left' = 0 /\ right' = 0 /\ swap' = FALSE /\ stack' = <<>>
    /\ acc' = {} /\ nless' = 0 /\ nswap' = 0 /\ ncall' = 0
    /\ UNCHANGED <<input, entry, kArg>>

\* Every k on the short inputs; the long inputs with targets on either side of
\* their first pivot. (Inputs above rangeNarrowingThreshold are left out: the
\* model's float estimate is a nondeterministic choice, the same in all shapes.)
InitShapes ==
    /\ \/ /\ input \in SmallInputs \cup MidInputs
          /\ entry \in {"PDQSelect", "FloydRivest"}
          /\ kArg \in 0..(Len(input) + 1)
       \/ /\ input \in BigInputs
          /\ entry = "PDQSelect"
          /\ kArg \in BigTargets(Len(input))
    /\ shape = "Interface"
    /\ Idle

NextShapes ==
    \/ PDQSelect
    \/ FastMin \/ MinScan \/ MinPlace
    \/ FastMax \/ MaxScan \/ MaxPlace
    \/ EnterLoop
    \/ LoopInsertion \/ LoopBreakPatterns \/ LoopBalanced
    \/ ChoosePivot \/ ReverseRange \/ ProbeSorted \/ SkipProbe
    \/ PartitionEqual \/ Partition
    \/ FloydRivest
    \/ FRNoNarrow \/ FRReturn
    \/ FRPivot \/ FROrient \/ FRInner \/ FRScanI \/ FRScanJ \/ FRFinal \/ FRShrink
    \/ CallNextShape

SpecShapes == InitShapes /\ [][NextShapes]_vars

RECURSIVE heapSortBuild(_, _, _, _)
heapSortBuild(d, ii, hi, first) ==
    IF ii >= 0 THEN heapSortBuild(siftDown(d, ii, hi, first).d, ii - 1, hi, first) ELSE d

RECURSIVE heapSortDrain(_, _, _)
heapSortDrain(d, ii, first) ==
    IF ii >= 0
    THEN heapSortDrain(siftDown(Swap(d, first, first + ii), 0, ii, first).d, ii - 1, first)
    ELSE d

heapSort(d, aa, bb) ==
    heapSortDrain(heapSortBuild(d, (bb - aa - 1) \div 2, bb - aa, aa), bb - aa - 1, aa)

\* Select / SelectOrdered / SelectFunc
Select ==
    /\ pc = "call"
    /\ entry = "Select"
    /\ IF kArg < 1 \/ kArg > Len(data)
       THEN /\ pc' = "done"
            /\ UNCHANGED <<a, b, k, limit>>
       ELSE /\ a' = 0
            /\ b' = Len(data)
            /\ k' = kArg - 1
            /\ limit' = bitsLen(Len(data))
            /\ pc' = "sel_loop"
    /\ acc' = {}
    /\ UNCHANGED <<data, input, prev, entry, shape, kArg, i, j, m, nless, nswap, ncall>>
    /\ UNCHANGED <<wasBalanced, wasPartitioned, pivot, hint, heapVars, frVars>>

\* length <= maxInsertion: insertionSort, return; limit == 0: heapSort, return;
\* if !wasBalanced { breakPatterns(data, a, b); limit-- }
SelectLoop ==
    /\ pc = "sel_loop"
    /\ IF b - a <= maxInsertion
       THEN /\ data' = insertionSort(data, a, b)
            /\ pc' = "done"
            /\ UNCHANGED limit
       ELSE IF limit = 0
       THEN /\ data' = heapSort(data, a, b)
            /\ pc' = "done"
            /\ UNCHANGED limit
       ELSE IF ~wasBalanced
       THEN /\ data' = breakPatterns(data, a, b)
            /\ limit' = limit - 1
            /\ pc' = "sel_choose"
       ELSE /\ pc' = "sel_choose"
            /\ UNCHANGED <<data, limit>>
    /\ ncall' = IF b - a > maxInsertion /\ limit # 0 /\ wasBalanced THEN ncall ELSE ncall + 1
    /\ acc' = {}
    /\ UNCHANGED <<input, prev, entry, shape, kArg, i, j, m, nless, nswap>>
    /\ UNCHANGED <<a, b, k, wasBalanced, wasPartitioned, pivot, hint, heapVars, frVars>>

\* pivot, hint := choosePivot(data, a, b); if hint == decreasingHint { reverseRange;
\* pivot = (b - 1) - (pivot - a); hint = increasingHint }
SelectChoosePivot ==
    /\ pc = "sel_choose"
    /\ LET r == choosePivot(data, a, b) IN
          IF r.hint = "decreasing"
          THEN /\ data' = reverseRange(data, a, b)
               /\ pivot' = (b - 1) - (r.pivot - a)
               /\ hint' = "increasing"
               /\ ncall' = ncall + 2
          ELSE /\ pivot' = r.pivot
               /\ hint' = r.hint
               /\ ncall' = ncall + 1
               /\ UNCHANGED data
    /\ pc' = "sel_probe"
    /\ acc' = {}
    /\ UNCHANGED <<input, prev, entry, shape, kArg, i, j, m, nless, nswap>>
    /\ UNCHANGED <<a, b, k, limit, wasBalanced, wasPartitioned, heapVars, frVars>>

\* if wasBalanced && wasPartitioned && hint == increasingHint {
\*     if partialInsertionSort(data, a, b) { return } }
SelectProbe ==
    /\ pc = "sel_probe"
    /\ IF wasBalanced /\ wasPartitioned /\ hint = "increasing"
       THEN LET r == partialInsertionSort(data, a, b) IN
            /\ data' = r.d
            /\ pc' = IF r.done THEN "done" ELSE "sel_part"
            /\ ncall' = ncall + 1
       ELSE /\ pc' = "sel_part"
            /\ UNCHANGED <<data, ncall>>
    /\ acc' = {}
    /\ UNCHANGED <<input, prev, entry, shape, kArg, i, j, m, nless, nswap>>
    /\ UNCHANGED <<pdqVars, heapVars, frVars>>

\* if k < mid { ...; b = mid } else if k > mid { ...; a = mid + 1 } else { return }
selGoesLeft_Inverted(kk, mid) == kk > mid
selGoesLeft(kk, mid) == kk < mid
selGoesRight(kk, mid) == kk > mid

\* if a > 0 && !data.Less(a-1, pivot) { mid := partitionEqual(...); a = mid; continue }
\* mid, alreadyPartitioned := partition(data, a, b, pivot) and the choice of side
SelectPartition ==
    /\ pc = "sel_part"
    /\ IF a > 0 /\ ~Less(data, a - 1, pivot)
       THEN LET r == partitionEqual(data, a, b, pivot) IN
            /\ data' = r.d
            /\ a' = r.mid
            /\ pc' = "sel_loop"
            /\ UNCHANGED <<b, wasBalanced, wasPartitioned>>
       ELSE LET r == partition(data, a, b, pivot)
                length == b - a
                leftLen == r.mid - a
                rightLen == b - r.mid
            IN
            /\ data' = r.d
            /\ wasPartitioned' = r.alreadyPartitioned
            /\ IF selGoesLeft(k, r.mid)
               THEN /\ wasBalanced' = (leftLen >= length \div 8)
                    /\ b' = r.mid
                    /\ a' = a
                    /\ pc' = "sel_loop"
               ELSE IF selGoesRight(k, r.mid)
               THEN /\ wasBalanced' = (rightLen >= length \div 8)
                    /\ a' = r.mid + 1
                    /\ b' = b
                    /\ pc' = "sel_loop"
               ELSE /\ pc' = "done"
                    /\ UNCHANGED <<a, b, wasBalanced>>
    /\ acc' = IF a > 0 THEN {<<"less", a - 1, pivot>>} ELSE {}
    /\ nless' = IF a > 0 THEN nless + 1 ELSE nless
    /\ ncall' = ncall + 1
    /\ UNCHANGED <<input, prev, entry, shape, kArg, i, j, m, nswap>>
    /\ UNCHANGED <<k, limit, pivot, hint, heapVars, frVars>>

InitSelect ==
    /\ \/ /\ input \in SmallInputs \cup MidInputs
          /\ shape \in Shapes
          /\ kArg \in 0..(Len(input) + 1)
       \/ /\ input \in BigInputs
          /\ shape = "Interface"
          /\ kArg \in BigTargets(Len(input))
    /\ entry = "Select"
    /\ Idle

NextSelect == Select \/ SelectLoop \/ SelectChoosePivot \/ SelectProbe \/ SelectPartition

SpecSelect == InitSelect /\ [][NextSelect]_vars

\* data[0..k) holds exactly the k smallest items of the input, as a multiset
FirstKSmallest ==
    \A v \in ItemsOf(input, 0, Len(input)) :
        CountEq(data, 0, kArg, v) =
            IF v < Target THEN CountEq(input, 0, Len(input), v)
            ELSE IF v = Target THEN kArg - CountLess(input, 0, Len(input), Target)
            ELSE 0

\* C14: the earlier Select: for 1 <= k <= N the first k positions hold the k
\* smallest items of the data on return; for k < 1 or k > N the data is unchanged.
C14_SelectFirstK ==
    entry = "Select" =>
        /\ pc # "panic"
        /\ pc = "done" => IF ValidK THEN FirstKSmallest /\ SameItems(data, input)
                                    ELSE data = input /\ nswap = 0 /\ ncall = 0

\* returned after partitionEqual moved the range past the target (a = mid > k)
C14_Witness ==
    /\ pc = "done" /\ entry = "Select" /\ ValidK
    /\ a > k
    /\ data # input


\* every item of positions [lo1, hi1) is <= every item of positions [lo2, hi2)
AllLeq(d, lo1, hi1, lo2, hi2) ==
    \A x \in lo1..(hi1 - 1) : \A y \in lo2..(hi2 - 1) : At(d, x) <= At(d, y)

\* C15: in pdqselect entered from PDQSelect, at the start of every loop iteration
\* every item of [0, a) is <= every item of [a, b) and every item of [a, b) is <=
\* every item of [b, N); in particular the item at a-1 is <= the whole working range.
C15_LoopOrdering ==
    (entry = "PDQSelect" /\ pc = "loop") =>
        /\ 0 <= a /\ a <= b /\ b <= Len(data)
        /\ AllLeq(data, 0, a, a, b)
        /\ AllLeq(data, a, b, b, Len(data))
        /\ a > 0 => \A y \in a..(b - 1) : At(data, a - 1) <= At(data, y)

\* a loop iteration whose working range has been cut on both sides
C15_Witness ==
    /\ entry = "PDQSelect" /\ pc = "loop"
    /\ a > 0 /\ b < Len(data)
    /\ data # input


\* the states of pdqselect at the head of its loop and at its calls of insertionSort
\* and heapSelect ("loop"), of partitionEqual and partition ("eqcheck"), and between
InLoopBody == pc \in {"loop", "choose", "chosen", "eqcheck"}

\* C16: in pdqselect entered from PDQSelect the absolute target index satisfies
\* a <= k < b at the start of every loop iteration and at every call of insertionSort,
\* heapSelect, partitionEqual and partition, and the k-th smallest item of the
\* original sequence lies in [a, b) (at the rank k - a + 1 of that range).
C16_TargetInRange ==
    (entry \in {"PDQSelect", "pdqselect"} /\ (InLoopBody \/ pc = "hs_entry")) =>
        /\ k = kArg - 1
        /\ a <= k /\ k < b
        /\ pc = "hs_entry" => (ha = a /\ hb = b /\ hk = k)
        /\ Target \in ItemsOf(data, a, b)
        /\ RankValue(data, a, b, k - a + 1) = Target

\* partitionEqual is about to be called on a range that no longer starts at 0
C16_Witness ==
    /\ entry = "PDQSelect" /\ pc = "eqcheck"
    /\ equalRun
    /\ a < k /\ k < b - 1


\* C17: whenever pdqselect takes the equal-to-previous-pivot path (a > 0 and the
\* item at a-1 is not less than the pivot) no item of [a, b) is less than the pivot;
\* when it then returns because k < mid, the item at k is the k-th smallest of the
\* whole sequence with [0, k) <= it and [k, N) >= it; when it continues with a = mid,
\* a <= k < b still holds.
C17_EqualRunPath ==
    /\ []((pc = "eqcheck" /\ equalRun) =>
            \A x \in a..(b - 1) : ~(At(data, x) < At(data, pivot)))
    /\ [][(pc = "eqcheck" /\ equalRun /\ pc' = "done") =>
            /\ At(data', k) = Target
            /\ \A x \in 0..(k - 1) : At(data', x) <= At(data', k)
            /\ \A x \in k..(Len(data') - 1) : At(data', x) >= At(data', k)]_vars
    /\ [][(pc = "eqcheck" /\ equalRun /\ pc' = "loop") =>
            /\ a' > a
            /\ a' <= k' /\ k' < b']_vars

\* returned from the equal run: the target at k > a equals the item left of the range
C17_Witness ==
    /\ entry = "PDQSelect" /\ pc = "done"
    /\ acc = {<<"less", a - 1, pivot>>}
    /\ a > 0 /\ a < k
    /\ At(data, k) = At(data, a - 1)


\* ------------------------------------- pdqselect at limit 0 on a range [a, b)
FallbackLen == maxInsertion + 4

\* A sequence as the loop of pdqselect keeps it: positions below aa hold items <=
\* every item of [aa, bb), positions from bb on hold items >= every item of it.
RangeState(p, n, aa, bb) ==
    [x \in 1..n |->
        IF x - 1 < aa THEN 0
        ELSE IF x - 1 >= bb THEN 9
        ELSE 1 + (Pattern(p, n)[x] % 8)]

\* The head of the loop with limit == 0, a range longer than maxInsertion and an
\* absolute target a <= k < b that the fast paths of the entry did not take.
InitFallback ==
    /\ \E p \in 1..NumPatterns : \E aa \in 0..FallbackLen : \E bb \in 0..FallbackLen :
          /\ bb - aa > maxInsertion
          /\ input = RangeState(p, FallbackLen, aa, bb)
          /\ a = aa
          /\ b = bb
    /\ data = input
    /\ k \in a..(b - 1)
    /\ k # 0
    /\ ~(b = Len(input) /\ k = b - 1)
    /\ kArg = k + 1
    /\ entry = "pdqselect"
    /\ shape = "Interface"
    /\ limit = 0
    /\ pc = "loop"
    /\ wasBalanced = TRUE /\ wasPartitioned = TRUE
    /\ pivot = 0 /\ hint = "unknown"
    /\ i = 0 /\ j = 0 /\ m = 0
    /\ ha = 0 /\ hb = 0 /\ hk = 0
    /\ left = 0 /\ right = 0 /\ swap = FALSE /\ stack = <<>>
    /\ acc = {} /\ nless = 0 /\ nswap = 0 /\ ncall = 0
    /\ prev = <<>>

NextFallback == LoopFallback \/ HSEntry \/ HSBuild \/ HSBuildDone \/ HSScan \/ HSPlace

SpecFallback == InitFallback /\ [][NextFallback]_vars

splitIndex == IF b' # b THEN b' ELSE a' - 1

\* C19: after each normal partition in pdqselect, wasBalanced is true exactly when
\* both sides of the split are at least length/8: mid - a >= length/8 and
\* b - mid >= length/8.
C19_BalancedBothSides ==
    [][(pc = "eqcheck" /\ ~equalRun /\ pc' = "loop") =>
          (wasBalanced' <=> (/\ splitIndex - a >= (b - a) \div 8
                             /\ b - splitIndex >= (b - a) \div 8))]_vars


\* --------------------------------------------------- PDQSelect: the limit
\* The shortest length at which a side shorter than length/8 is cut once more
\* before it falls to maxInsertion.
LimitLen == nintherLen + 2

\* data[0] = 1 is the median of the first samples (data[n/2] = 0 is the only smaller
\* item); the second pivot 5 at the middle of what remains has 15 smaller items left
\* of it, positions 2..16; of these, the third pivot 3 has one smaller item, 2.
TwoCuts(n) ==
    [x \in 1..n |->
        LET idx == x - 1
            half == n \div 2
        IN IF idx = 0 THEN 1
           ELSE IF idx = 1 THEN 9
           ELSE IF idx = 5 THEN 2
           ELSE IF idx = 12 THEN 3
           ELSE IF idx <= 16 THEN 4
           ELSE IF idx = half THEN 0
           ELSE IF idx = half + 1 THEN 5
           ELSE 6 + (idx % 3)]

LimitTargets == {maxInsertion - 1, maxInsertion + 4}

\* Every call through the public entry point: the inputs of InitPDQ and one
\* sequence long enough for the pivot chooser's refinement.
InitLimit ==
    /\ \/ /\ input \in SmallInputs \cup MidInputs
          /\ shape \in Shapes
          /\ kArg \in 0..(Len(input) + 1)
       \/ /\ input \in BigInputs
          /\ shape = "Interface"
          /\ kArg \in BigTargets(Len(input))
       \/ /\ input = TwoCuts(LimitLen)
          /\ shape = "Interface"
          /\ kArg \in LimitTargets
    /\ entry = "PDQSelect"
    /\ Idle

NextLimit ==
    \/ PDQSelect
    \/ FastMin \/ MinScan \/ MinPlace
    \/ FastMax \/ MaxScan \/ MaxPlace
    \/ EnterLoop
    \/ LoopInsertion \/ LoopBreakPatterns \/ LoopBalanced
    \/ ChoosePivot \/ ReverseRange \/ ProbeSorted \/ SkipProbe
    \/ PartitionEqual \/ Partition

SpecLimit == InitLimit /\ [][NextLimit]_vars

\* C20: in every run started through PDQSelect (limit initialised to bits.Len(N)),
\* limit is never negative and is greater than 0 at every evaluation of the
\* `limit == 0` check; every decrement follows a partition that left the working
\* range at less than 1/8 of its length; heapSelect is never invoked.
C20_LimitStaysPositive ==
    entry = "PDQSelect" =>
        /\ limit >= 0
        /\ limit <= bitsLen(Len(input))
        /\ (pc = "loop" /\ b - a > maxInsertion) => limit > 0
        /\ (pc = "loop" /\ ~wasBalanced) => 8 * (b - a) < Len(input)
        /\ (InLoopBody /\ limit < bitsLen(Len(input))) => 8 * (b - a) < Len(input)
        /\ pc \notin {"hs_entry", "hs_build", "hs_scan", "panic"}

\* the `limit == 0` check is evaluated after limit has been decremented
C20_Witness ==
    /\ entry = "PDQSelect" /\ pc = "loop"
    /\ b - a > maxInsertion
    /\ limit < bitsLen(Len(input))

\* ------------------------------------------- PDQSelect: the pattern breaker
\* data[0..2] = 1 and data[0] is taken as first pivot; the partition exchanges the
\* other two 1s with the two 0s at n-12 and n-5, which leaves the 112 + 2 zeros
\* left of the pivot and 15 items right of it, the two 1s among them where the
\* pattern breaker moves them onto the samples of the next pivot choice.
EqualAfterCut(n) ==
    [x \in 1..n |->
        LET idx == x - 1
        IN IF idx <= 2 THEN 1
           ELSE IF idx < n - 15 THEN 0
           ELSE IF idx = n - 12 \/ idx = n - 5 THEN 0
           ELSE 2]

\* The shortest length at which the right side of a partition, pivot included, is
\* shorter than length/8 and the range behind the pivot, shortened by an equal run
\* of two items, is still longer than maxInsertion.
BreakLen == 8 * (maxInsertion + 5)

BreakTargets == {BreakLen - 10, BreakLen - 3}

\* Calls through the public entry point on the patterned sequences and on one
\* sequence whose short right side starts with items equal to the first pivot.
InitBreak ==
    /\ \/ /\ input \in MidInputs
          /\ shape \in Shapes
          /\ kArg \in 0..(Len(input) + 1)
       \/ /\ input = EqualAfterCut(BreakLen)
          /\ shape = "Interface"
          /\ kArg \in BreakTargets
    /\ entry = "PDQSelect"
    /\ Idle

SpecBreak == InitBreak /\ [][NextLimit]_vars

\* the next iteration applies the pattern breaker and decrements limit
breakerDue == pc = "loop" /\ b - a > maxInsertion /\ limit # 0 /\ ~wasBalanced

\* C21: the pattern breaker is applied and limit decremented only in an iteration
\* whose immediately preceding iteration performed a normal partition that kept a
\* side shorter than length/8: not in the first iteration, and not in the iteration
\* that follows partitionEqual's `continue`, so that one imbalanced partition
\* causes exactly one decrement.
C21_OneDecrementPerImbalance ==
    [][/\ (pc = "pdq_entry" /\ pc' = "loop") => ~breakerDue'
       /\ (pc = "eqcheck" /\ equalRun /\ pc' = "loop") => ~breakerDue'
       /\ (pc = "eqcheck" /\ ~equalRun /\ pc' = "loop" /\ breakerDue')
             => 8 * (b' - a') < b - a]_vars

\* ------------------------------------------------- PDQSelect: fast paths
MinOf(d) == CHOOSE v \in ItemsOf(d, 0, Len(d)) : \A w \in ItemsOf(d, 0, Len(d)) : v <= w
MaxOf(d) == CHOOSE v \in ItemsOf(d, 0, Len(d)) : \A w \in ItemsOf(d, 0, Len(d)) : w <= v

\* d is e with the items at `at` and at some position holding the value v exchanged
ExchangedWith(d, e, at, v) ==
    \E x \in 0..(Len(e) - 1) : At(e, x) = v /\ d = Swap(e, at, x)

\* C22: with k = 1 PDQSelect performs at most one swap, which exchanges position 0
\* with the position of a minimum item; with k = N, N > 1, at most one swap, which
\* exchanges position N-1 with the position of a maximum item; every other position
\* keeps its original item; with N = 1 and k = 1 nothing is swapped.
C22_FastPaths ==
    (entry = "PDQSelect" /\ ValidK /\ (kArg = 1 \/ kArg = Len(input))) =>
        /\ pc # "panic"
        /\ nswap <= 1
        /\ ncall = 0
        /\ nswap = 0 => data = input
        /\ pc = "done" =>
              /\ kArg = 1 => ExchangedWith(data, input, 0, MinOf(input))
              /\ (kArg = Len(input) /\ Len(input) > 1)
                    => ExchangedWith(data, input, Len(input) - 1, MaxOf(input))
              /\ Len(input) = 1 => (data = input /\ (shape # "Ordered" => nswap = 0))

\* the maximum of a longer sequence was found away from the end and exchanged with it
C22_Witness ==
    /\ entry = "PDQSelect" /\ pc = "done"
    /\ kArg = Len(input) /\ Len(input) > maxInsertion
    /\ nswap = 1 /\ data # input
    /\ At(data, Len(input) - 1) = MaxOf(input)

\* ------------------------------------------------ PDQSelect: short inputs
\* Every sequence up to MaxLen and the patterned sequences up to maxInsertion,
\* none long enough to be partitioned.
ShortInputs ==
    SmallInputs \cup {Pattern(p, n) : p \in 1..NumPatterns, n \in (MaxLen + 1)..maxInsertion}

InitShort ==
    /\ input \in ShortInputs
    /\ entry = "PDQSelect"
    /\ shape \in Shapes
    /\ kArg \in 0..(Len(input) + 1)
    /\ Idle

NextShort ==
    \/ PDQSelect
    \/ FastMin \/ MinScan \/ MinPlace
    \/ FastMax \/ MaxScan \/ MaxPlace
    \/ EnterLoop \/ LoopInsertion

SpecShort == InitShort /\ [][NextShort]_vars

Ascending(d) == \A x \in 1..(Len(d) - 1) : d[x] <= d[x + 1]

\* C23: for every sequence of length N <= 12 and every k with 1 < k < N, PDQSelect
\* returns with the whole sequence sorted in ascending order, by way of one
\* insertion sort and no partition.
C23_ShortInputsSorted ==
    (entry = "PDQSelect" /\ Len(input) <= maxInsertion /\ 1 < kArg /\ kArg < Len(input)) =>
        /\ pc \in {"call", "pdq_entry", "loop", "done"}
        /\ pc = "done" => /\ Ascending(data)
                          /\ SameItems(data, input)
                          /\ ncall = 1

\* a sequence of maxInsertion items that was not sorted has been sorted
C23_Witness ==
    /\ entry = "PDQSelect" /\ pc = "done"
    /\ Len(input) = maxInsertion
    /\ 1 < kArg /\ kArg < Len(input)
    /\ ~Ascending(input) /\ Ascending(data)

\* ------------------------------------------- floydRivest: the loop invariant
\* C24: at the start of every iteration of the floydRivest loop (right > left at the
\* loop test) left <= k <= right, and the item of rank k of the call's initial range
\* lies within [left, right]: each narrowing of the range keeps the item of rank k
\* at rank k of what remains, and in the outermost call that item is the k-th
\* smallest of the input. The loop is left with left > k or right < k only after
\* the pivot landed on j == k.
C24_FRTargetInRange ==
    /\ []((entry = "FloydRivest" /\ pc = "fr_loop") =>
            /\ right > left => (left <= k /\ k <= right)
            /\ ~(right > left) =>
                  \/ left = k /\ right = k
                  \/ j = k /\ left = k + 1 /\ right = k - 1
            /\ (right > left /\ stack = <<>>) =>
                  RankValue(data, left, right + 1, k - left + 1) = Target)
    /\ [][(pc = "fr_shrink" /\ right' > left') =>
             /\ left <= left' /\ right' <= right
             /\ RankValue(data', left', right' + 1, k - left' + 1)
                   = RankValue(data, left, right + 1, k - left + 1)]_vars

\* an iteration starts on a range cut on both sides
C24_Witness ==
    /\ entry = "FloydRivest" /\ pc = "fr_loop"
    /\ right > left /\ left > 0 /\ right < Len(data) - 1
    /\ left < k /\ k < right

\* ----------------------------------------- floydRivest: the pivot's place
\* where the item taken from k lies once the boundary items are oriented
boundaryOfTarget(sw, ll, rr) == IF sw THEN rr ELSE ll

InScans == pc \in {"fr_inner", "fr_scan_i", "fr_scan_j"}

\* C25: after the final pivot placement of each floydRivest iteration the item at j
\* is the value that was at index k when the partition step began (it is carried
\* from k to left, to the boundary opposite the pivot index, by the first exchange
\* of the loop to the pivot index, where it stays until it is placed at j), and
\* within [left, right] the items strictly less than it are all in [left, j) and
\* those strictly greater all in (j, right]: items before j are <= it, items after
\* j are >= it.
C25_FRPivotPlaced ==
    /\ []((entry = "FloydRivest" /\ pc = "fr_shrink") =>
            /\ left <= j /\ j <= right
            /\ \A x \in left..(j - 1) : At(data, x) <= At(data, j)
            /\ \A x \in (j + 1)..right : At(data, x) >= At(data, j))
    /\ [][/\ (pc = "fr_pivot" /\ pc' = "fr_orient") => At(data', left) = At(data, k)
          /\ (pc = "fr_orient" /\ pc' = "fr_inner") =>
                At(data', boundaryOfTarget(swap', left, right)) = At(data, left)
          /\ (pc = "fr_inner" /\ pc' = "fr_scan_i" /\ i = left) =>
                At(data', pivot) = At(data, boundaryOfTarget(swap, left, right))
          /\ (InScans /\ InScans' /\ i > left) => At(data', pivot) = At(data, pivot)
          /\ (pc = "fr_inner" /\ pc' = "fr_shrink") =>
                (i > left /\ At(data', j') = At(data, pivot))]_vars

\* the pivot was moved away from k and has smaller items before and larger after it
C25_Witness ==
    /\ entry = "FloydRivest" /\ pc = "fr_shrink"
    /\ left < j /\ j < right /\ j # k
    /\ \E x \in left..(j - 1) : At(data, x) < At(data, j)
    /\ \E x \in (j + 1)..right : At(data, x) > At(data, j)
    /\ \E x \in (left..right) \ {j} : At(data, x) = At(data, j)

\* -------------------------------------------- floydRivest: index safety
AllEqual(d) == \A x \in 1..Len(d) : d[x] = d[1]

\* C26: during a floydRivest call every index passed to Less or Swap (left, right,
\* k, the pivot index, i and j of the scans, j+1 of the final placement) lies within
\* the current range [left, right], itself within the sequence, for every input,
\* all-equal sequences included; no access is out of bounds.
C26_FRAccessInRange ==
    entry = "FloydRivest" =>
        /\ pc # "panic"
        /\ \A t \in acc :
              /\ 0 <= left /\ right < Len(data)
              /\ left <= t[2] /\ t[2] <= right
              /\ left <= t[3] /\ t[3] <= right

\* on an all-equal sequence the !swap branch has placed the pivot at j+1
C26_Witness ==
    /\ entry = "FloydRivest" /\ pc = "fr_shrink"
    /\ AllEqual(input) /\ Len(input) > maxInsertion
    /\ ~swap /\ acc = {<<"swap", right, j>>}
    /\ nless > 2

\* --------------------------------- floydRivest: any narrowing estimate
\* The narrowing step with the estimate left open: newLeft and newRight are any
\* of a few positions with left <= newLeft <= k <= newRight <= right, the whole
\* range and the single position k among them. A call that is handed its caller's
\* range narrows again; MaxDepth bounds the frames that are followed.
MaxDepth == 2

anyLefts(ll, kk) == {ll, (ll + kk) \div 2, kk}
anyRights(kk, rr) == {kk, (kk + rr + 1) \div 2, rr}

FRNarrowAny ==
    /\ pc = "fr_loop"
    /\ right > left
    /\ right - left > rangeNarrowingThreshold
    /\ Len(stack) < MaxDepth
    /\ \E nl \in anyLefts(left, k), nr \in anyRights(k, right) :
          /\ left' = nl
          /\ right' = nr
    /\ stack' = Append(stack, [left |-> left, right |-> right])
    /\ acc' = {}
    /\ UNCHANGED <<data, input, prev, entry, shape, kArg, pc, i, j, m, nless, nswap, ncall>>
    /\ UNCHANGED <<pdqVars, heapVars, swap>>

InitAnyNarrow ==
    /\ input \in NarrowInputs
    /\ shape = "Interface"
    /\ kArg \in NarrowTargets(Len(input))
    /\ entry = "FloydRivest"
    /\ Idle

NextAnyNarrow ==
    \/ FloydRivest
    \/ FRNarrowAny \/ FRNoNarrow \/ FRReturn \/ FRReturnNarrowed
    \/ FRPivot \/ FROrient \/ FRInner \/ FRScanI \/ FRScanJ \/ FRFinal \/ FRShrink

SpecAnyNarrow == InitAnyNarrow /\ [][NextAnyNarrow]_vars

\* the call has returned or has a step to take, or its frames are no longer followed
AnyNarrowCanStep ==
    \/ pc \in {"call", "done", "fr_pivot", "fr_orient", "fr_inner",
               "fr_scan_i", "fr_scan_j", "fr_shrink"}
    \/ pc = "fr_loop" /\ (right > left /\ right - left > rangeNarrowingThreshold)
                         => Len(stack) <= MaxDepth

\* every call on the stack runs on a range strictly inside its caller's
ProperlyNested ==
    \A f \in 1..Len(stack) :
        LET inner == IF f = Len(stack) THEN [left |-> left, right |-> right]
                     ELSE stack[f + 1]
        IN inner.right - inner.left < stack[f].right - stack[f].left

FRResult ==
    (entry = "FloydRivest" /\ ValidK) =>
        /\ pc # "panic"
        /\ pc = "done" => (At(data, kArg - 1) = Target /\ SplitAround(Target))

C28_PivotIsLarger ==
    (entry = "FloydRivest" /\ InScans) =>
        /\ At(data, pivot) >= At(data, left)
        /\ At(data, pivot) >= At(data, right)
        /\ At(data, left) # At(data, right) =>
              \/ At(data, left) < At(data, pivot)
              \/ At(data, right) < At(data, pivot)

\* C28, amended: in each floydRivest partition step the pivot index is left when
\* the item moved from k to left is strictly less than the item at right, else
\* right; when it is assigned it holds the item that was at right, and the first
\* exchange of the loop replaces that by the item moved from k, which is the pivot
\* value of both scans; from then on the item at left is <= the pivot value and the
\* item at right is >= it (strictly greater when the pivot index is left).
C28_PivotIsItemFromK ==
    /\ []((entry = "FloydRivest" /\ InScans) =>
            /\ pivot = (IF swap THEN left ELSE right)
            /\ i > left =>
                  /\ At(data, left) <= At(data, pivot)
                  /\ At(data, pivot) <= At(data, right)
                  /\ swap => At(data, pivot) < At(data, right))
    /\ [][(pc = "fr_orient" /\ pc' = "fr_inner") =>
             /\ swap' <=> At(data, left) < At(data, right)
             /\ At(data', pivot') = At(data, right)
             /\ At(data', boundaryOfTarget(swap', left, right)) = At(data, left)]_vars
    /\ [][(pc = "fr_inner" /\ i = left /\ pc' = "fr_scan_i") =>
             At(data', pivot) = At(data, boundaryOfTarget(swap, left, right))]_vars

\* a scan compares against a pivot that is the smaller boundary item and has
\* duplicates inside the range
C28_Witness ==
    /\ entry = "FloydRivest" /\ pc = "fr_scan_i" /\ i > left
    /\ swap /\ At(data, pivot) < At(data, right)
    /\ \E x \in (left + 1)..(right - 1) : At(data, x) = At(data, pivot)

\* ------------------------------------------------------ self-comparison
SelfCompare == \E t \in acc : t[1] = "less" /\ t[2] = t[3]

\* C29: neither algorithm ever compares an item with itself: no call Less(i, j) is
\* made with i == j in pdqselect's fast paths and loop, in heapSelect, or in
\* floydRivest's scans against the pivot index.
C29_NoSelfCompare ==
    (pc # "panic") => ~SelfCompare

\* -------------------------------------------------- heapSelect: the frame
\* d and e agree at every position outside lo..hi
SameOutside(d, e, lo, hi) ==
    \A x \in 0..(Len(e) - 1) : (x < lo \/ x > hi) => At(d, x) = At(e, x)

\* C30: heapSelect(data, a, b, k) with 0 <= a < b <= N and 0 <= k < b - a compares
\* and swaps only positions in [a, b): every position outside [a, b) holds its
\* original item throughout and afterwards, and the sift-down heap of size k+1
\* never extends past position a+k (building it changes positions a..a+k only, a
\* scan step changes these and never more than the scanned position a+i besides).
C30_HeapSelectFrame ==
    /\ [](entry = "heapSelect" =>
            /\ pc # "panic"
            /\ 0 <= ha /\ ha < hb /\ hb <= Len(data) /\ 0 <= hk /\ hk < hb - ha
            /\ SameOutside(data, input, ha, hb - 1)
            /\ \A t \in acc : ha <= t[2] /\ t[2] < hb /\ ha <= t[3] /\ t[3] < hb
            /\ pc \in {"hs_entry", "hs_build"} => SameOutside(data, input, ha, ha + hk))
    /\ [][(entry = "heapSelect" /\ pc = "hs_build") =>
             SameOutside(data', data, ha, ha + hk)]_vars
    /\ [][(entry = "heapSelect" /\ pc = "hs_scan" /\ i < heapN) =>
             \A x \in 0..(Len(data) - 1) :
                (x < ha \/ (x > ha + hk /\ x # ha + i)) => At(data', x) = At(data, x)]_vars

\* a call on an inner sub-range has returned after rearranging it, with a larger
\* item before the sub-range and a different one after it
C30_Witness ==
    /\ entry = "heapSelect" /\ pc = "done"
    /\ ha > 0 /\ hb < Len(input)
    /\ hb - ha >= 2
    /\ nswap >= 1 /\ data # input
    /\ At(input, ha - 1) > At(input, ha) /\ At(input, hb) # At(input, hb - 1)

====
